---- MODULE Spec2Model ----
(***************************************************************************)
(* Model of programs/test_program/src/lib.rs: an Anchor program with two   *)
(* instructions, add and subtract, over u64 with checked arithmetic.       *)
(*                                                                         *)
(* A u64 is kept at its full width of 64 bits.  TLC's integers are 32 bits *)
(* wide, so a u64 is a sequence of NumLimbs limbs of LimbBase = 2^16 each, *)
(* least significant limb first.  Decimal text is a sequence of            *)
(* one-character strings.                                                  *)
(***************************************************************************)
EXTENDS Integers, Sequences, FiniteSets, TLC

VARIABLES log, calls

vars == <<log, calls>>

\* ------------------------------------------------------------------ u64

NumLimbs == 4
LimbBase == 65536

Limb == 0..(LimbBase - 1)
IsU64(v) == DOMAIN v = 1..NumLimbs /\ \A i \in 1..NumLimbs : v[i] \in Limb

Zero == <<0, 0, 0, 0>>
U64_MAX == <<LimbBase - 1, LimbBase - 1, LimbBase - 1, LimbBase - 1>>

\* The u64 whose value is the small natural n (n < LimbBase).
U64Of(n) == <<n, 0, 0, 0>>

\* Limbs i..NumLimbs of a + b + carry, and the carry out of the top limb.
RECURSIVE AddFrom(_, _, _, _)
AddFrom(a, b, i, carry) ==
    IF i > NumLimbs THEN [limbs |-> <<>>, carry |-> carry]
    ELSE LET s == a[i] + b[i] + carry
             rest == AddFrom(a, b, i + 1, s \div LimbBase)
         IN  [limbs |-> <<s % LimbBase>> \o rest.limbs, carry |-> rest.carry]

\* u64::overflowing_add: the sum wrapped to 64 bits, and whether it wrapped.
overflowing_add(a, b) ==
    LET r == AddFrom(a, b, 1, 0)
    IN  [value |-> r.limbs, overflow |-> r.carry = 1]

\* Limbs i..NumLimbs of a - b - borrow, and the borrow out of the top limb.
RECURSIVE SubFrom(_, _, _, _)
SubFrom(a, b, i, borrow) ==
    IF i > NumLimbs THEN [limbs |-> <<>>, borrow |-> borrow]
    ELSE LET d == a[i] - b[i] - borrow
             rest == SubFrom(a, b, i + 1, IF d < 0 THEN 1 ELSE 0)
         IN  [limbs  |-> <<IF d < 0 THEN d + LimbBase ELSE d>> \o rest.limbs,
              borrow |-> rest.borrow]

\* u64::overflowing_sub: the difference wrapped to 64 bits, and whether it wrapped.
overflowing_sub(a, b) ==
    LET r == SubFrom(a, b, 1, 0)
    IN  [value |-> r.limbs, overflow |-> r.borrow = 1]

None == [tag |-> "None"]
Some(v) == [tag |-> "Some", value |-> v]

Ok(v) == [tag |-> "Ok", value |-> v]
Err(e) == [tag |-> "Err", code |-> e]

\* #[error_code] enum ErrorCode { Overflow }
ErrorCode == {"Overflow"}
Overflow == CHOOSE e \in ErrorCode : TRUE

\* Mutants of checked_add: the bound taken one short; the sum left to wrap.
checked_add_strict(a, b) ==
    LET r == overflowing_add(a, b)
    IN  IF r.overflow \/ r.value = U64_MAX THEN None ELSE Some(r.value)

checked_add_wrapping(a, b) == Some(overflowing_add(a, b).value)

\* a.checked_add(b): None on overflow, Some(sum) otherwise.
checked_add(a, b) ==
    LET r == overflowing_add(a, b)
    IN  IF r.overflow THEN None ELSE Some(r.value)

\* Mutants of checked_sub: equal operands rejected; the operands swapped; the
\* difference saturated at 0.
checked_sub_strict(a, b) ==
    LET r == overflowing_sub(a, b)
    IN  IF r.overflow \/ a = b THEN None ELSE Some(r.value)

checked_sub_swapped(a, b) ==
    LET r == overflowing_sub(b, a)
    IN  IF r.overflow THEN None ELSE Some(r.value)

checked_sub_saturating(a, b) ==
    LET r == overflowing_sub(a, b)
    IN  IF r.overflow THEN Some(Zero) ELSE Some(r.value)

\* a.checked_sub(b): None on underflow, Some(difference) otherwise.
checked_sub(a, b) ==
    LET r == overflowing_sub(a, b)
    IN  IF r.overflow THEN None ELSE Some(r.value)

\* Option::ok_or(err)
ok_or(opt, e) == IF opt.tag = "Some" THEN Ok(opt.value) ELSE Err(e)

\* ------------------------------------------------------------------ "{}" of a u64

DigitChars == <<"0", "1", "2", "3", "4", "5", "6", "7", "8", "9">>

\* Long division by 10 of the limbs i..1 of x, most significant first, with
\* rem carried in from the limbs above: the quotient's limbs and the remainder.
RECURSIVE DivFrom(_, _, _)
DivFrom(x, i, rem) ==
    IF i = 0 THEN [q |-> <<>>, r |-> rem]
    ELSE LET cur == rem * LimbBase + x[i]
             rest == DivFrom(x, i - 1, cur % 10)
         IN  [q |-> Append(rest.q, cur \div 10), r |-> rest.r]

DivMod10(x) == DivFrom(x, NumLimbs, 0)

\* Display for u64: the decimal digits, no sign, no leading zeros ("0" for 0).
RECURSIVE fmt_u64(_)
fmt_u64(x) ==
    LET dm == DivMod10(x)
    IN  IF dm.q = Zero THEN <<DigitChars[dm.r + 1]>>
        ELSE Append(fmt_u64(dm.q), DigitChars[dm.r + 1])

\* Mutant of AddingLine: the operands printed in the wrong order.
AddingLine_swapped(a, b, result) ==
    <<"A", "d", "d", "i", "n", "g", " ">> \o fmt_u64(b) \o <<" ", "+", " ">>
        \o fmt_u64(a) \o <<" ", "=", " ">> \o fmt_u64(result)

\* msg!("Adding {} + {} = {}", a, b, result)
AddingLine(a, b, result) ==
    <<"A", "d", "d", "i", "n", "g", " ">> \o fmt_u64(a) \o <<" ", "+", " ">>
        \o fmt_u64(b) \o <<" ", "=", " ">> \o fmt_u64(result)

\* msg!("Subtracting {} - {} = {}", a, b, result)
SubtractingLine(a, b, result) ==
    <<"S", "u", "b", "t", "r", "a", "c", "t", "i", "n", "g", " ">> \o fmt_u64(a)
        \o <<" ", "-", " ">> \o fmt_u64(b) \o <<" ", "=", " ">> \o fmt_u64(result)

\* ------------------------------------------------------------------ the instructions

\* Mutants of add: the outcome made to depend on the context; the line logged
\* before the check; the body of subtract copied without changing the operation.
add_ctx_dependent(ctx, a, b) ==
    LET checked == ok_or(checked_add(a, b), Overflow)
    IN  IF checked.tag = "Err" \/ ctx.remaining_accounts # 0
        THEN [ret |-> Err(Overflow), logs |-> <<>>]
        ELSE [ret  |-> Ok(checked.value),
              logs |-> <<AddingLine(a, b, checked.value)>>]

add_log_first(ctx, a, b) ==
    LET wrapped == overflowing_add(a, b).value
        checked == ok_or(checked_add(a, b), Overflow)
    IN  IF checked.tag = "Err"
        THEN [ret |-> checked, logs |-> <<AddingLine(a, b, wrapped)>>]
        ELSE [ret  |-> Ok(checked.value),
              logs |-> <<AddingLine(a, b, checked.value)>>]

add_with_sub(ctx, a, b) ==
    LET checked == ok_or(checked_sub(a, b), Overflow)
    IN  IF checked.tag = "Err"
        THEN [ret |-> checked, logs |-> <<>>]
        ELSE [ret  |-> Ok(checked.value),
              logs |-> <<AddingLine(a, b, checked.value)>>]

\* pub fn add(ctx: Context<Add>, a: u64, b: u64) -> Result<u64>
\* The outcome of one call: the value returned and the lines it logged.
add(ctx, a, b) ==
    LET checked == ok_or(checked_add(a, b), Overflow)
    IN  IF checked.tag = "Err"
        THEN [ret |-> checked, logs |-> <<>>]                       \* the ? returns
        ELSE [ret  |-> Ok(checked.value),
              logs |-> <<AddingLine(a, b, checked.value)>>]

\* Mutant of subtract: underflow reported under a kind of its own.
subtract_underflow_kind(ctx, a, b) ==
    LET checked == ok_or(checked_sub(a, b), "Underflow")
    IN  IF checked.tag = "Err"
        THEN [ret |-> checked, logs |-> <<>>]
        ELSE [ret  |-> Ok(checked.value),
              logs |-> <<SubtractingLine(a, b, checked.value)>>]

\* pub fn subtract(ctx: Context<Add>, a: u64, b: u64) -> Result<u64>
subtract(ctx, a, b) ==
    LET checked == ok_or(checked_sub(a, b), Overflow)
    IN  IF checked.tag = "Err"
        THEN [ret |-> checked, logs |-> <<>>]
        ELSE [ret  |-> Ok(checked.value),
              logs |-> <<SubtractingLine(a, b, checked.value)>>]

\* #[derive(Accounts)] pub struct Add {}: no accounts of its own; the caller
\* may still pass remaining accounts, counted here.
Contexts == {[remaining_accounts |-> n] : n \in {0, 1}}

\* One instruction executed by the host: the log gains the call's lines and
\* the caller receives the call's result.
Invoke(op, ctx, a, b) ==
    LET out == IF op = "add" THEN add(ctx, a, b) ELSE subtract(ctx, a, b)
    IN  /\ log' = log \o out.logs
        /\ calls' = Append(calls, [op |-> op, ctx |-> ctx, a |-> a, b |-> b,
                                   ret |-> out.ret])

\* ------------------------------------------------------------------ inputs

MaxCalls == 3
Near == 10

\* The operand pairs of the documented end-to-end scenario.
ScenarioArgs ==
    { <<U64Of(2), U64Of(3)>>, <<U64Of(10), U64Of(4)>>, <<U64_MAX, U64Of(1)>>,
      <<U64Of(3), U64Of(7)>> }

\* U64_MAX - k for a small k.
MaxMinus(k) == <<LimbBase - 1 - k, LimbBase - 1, LimbBase - 1, LimbBase - 1>>

\* Values where a carry or borrow crosses a limb, and the top bit.
LimbEdges ==
    { <<LimbBase - 1, 0, 0, 0>>, <<0, 1, 0, 0>>,
      <<LimbBase - 1, LimbBase - 1, 0, 0>>, <<0, 0, 1, 0>>,
      <<LimbBase - 1, LimbBase - 1, LimbBase - 1, 0>>, <<0, 0, 0, 1>>,
      <<LimbBase - 1, LimbBase - 1, LimbBase - 1, 32767>>, <<0, 0, 0, 32768>>,
      <<1, 0, 0, 32768>>, <<12345, 54321, 4660, 43981>> }

Operands ==
    {U64Of(k) : k \in 0..Near} \cup {MaxMinus(k) : k \in 0..Near} \cup LimbEdges

\* ------------------------------------------------------------------ behaviours

Init ==
    /\ log = <<>>
    /\ calls = <<>>

Add(ctx, a, b) ==
    /\ Len(calls) < MaxCalls
    /\ Invoke("add", ctx, a, b)

Subtract(ctx, a, b) ==
    /\ Len(calls) < MaxCalls
    /\ Invoke("subtract", ctx, a, b)

Next ==
    \/ \E ctx \in Contexts : \E args \in ScenarioArgs : Add(ctx, args[1], args[2])
    \/ \E ctx \in Contexts : \E args \in ScenarioArgs : Subtract(ctx, args[1], args[2])

Spec == Init /\ [][Next]_vars

\* A single call, over the wide operand set.
AddOnce(ctx, a, b) ==
    /\ calls = <<>>
    /\ Invoke("add", ctx, a, b)

SubtractOnce(ctx, a, b) ==
    /\ calls = <<>>
    /\ Invoke("subtract", ctx, a, b)

NextOnce ==
    \/ \E ctx \in Contexts : \E a \in Operands : \E b \in Operands : AddOnce(ctx, a, b)
    \/ \E ctx \in Contexts : \E a \in Operands : \E b \in Operands : SubtractOnce(ctx, a, b)

SpecOnce == Init /\ [][NextOnce]_vars

\* ------------------------------------------------------------------ mathematics
\* Mathematical naturals are written as decimal numerals (digit sequences of
\* any length, no leading zeros), with schoolbook arithmetic: no width, no wrap.

DigitVal(c) == CHOOSE d \in 0..9 : DigitChars[d + 1] = c

IsNumeral(d) ==
    /\ Len(d) >= 1
    /\ \A i \in 1..Len(d) : \E k \in 1..10 : DigitChars[k] = d[i]
    /\ Len(d) > 1 => d[1] # "0"

Front(s) == SubSeq(s, 1, Len(s) - 1)

RECURSIVE DecAddC(_, _, _)
DecAddC(x, y, c) ==
    IF x = <<>> /\ y = <<>>
    THEN IF c = 0 THEN <<>> ELSE <<DigitChars[c + 1]>>
    ELSE LET dx == IF x = <<>> THEN 0 ELSE DigitVal(x[Len(x)])
             dy == IF y = <<>> THEN 0 ELSE DigitVal(y[Len(y)])
             t  == dx + dy + c
         IN  Append(DecAddC(IF x = <<>> THEN x ELSE Front(x),
                            IF y = <<>> THEN y ELSE Front(y), t \div 10),
                    DigitChars[(t % 10) + 1])

\* x + y
DecAdd(x, y) == DecAddC(x, y, 0)

\* x < y
DecLess(x, y) ==
    \/ Len(x) < Len(y)
    \/ /\ Len(x) = Len(y)
       /\ \E i \in 1..Len(x) :
            /\ \A j \in 1..(i - 1) : x[j] = y[j]
            /\ DigitVal(x[i]) < DigitVal(y[i])

\* x <= y
DecLeq(x, y) == x = y \/ DecLess(x, y)

\* 2^64 - 1
U64MaxDecimal ==
    <<"1", "8", "4", "4", "6", "7", "4", "4", "0", "7", "3", "7", "0", "9", "5",
      "5", "1", "6", "1", "5">>

RECURSIVE SmallNumeral(_)
SmallNumeral(n) ==
    IF n < 10 THEN <<DigitChars[n + 1]>>
    ELSE Append(SmallNumeral(n \div 10), DigitChars[(n % 10) + 1])

\* x * m + c, for small naturals m and c.
RECURSIVE DecMulAdd(_, _, _)
DecMulAdd(x, m, c) ==
    IF x = <<>>
    THEN IF c = 0 THEN <<>> ELSE SmallNumeral(c)
    ELSE LET t == DigitVal(x[Len(x)]) * m + c
         IN  Append(DecMulAdd(Front(x), m, t \div 10), DigitChars[(t % 10) + 1])

\* The mathematical value of a u64: limb i weighs LimbBase^(i-1).
RECURSIVE ValueFrom(_, _)
ValueFrom(v, i) ==
    IF i > NumLimbs THEN <<"0">>
    ELSE DecMulAdd(ValueFrom(v, i + 1), LimbBase, v[i])

Value(v) == ValueFrom(v, 1)

\* The most recent call.
Last == calls[Len(calls)]
Called == calls # <<>>

\* ------------------------------------------------------------------ claims

\* C1: whenever the mathematical sum a + b is at most 2^64 - 1, add(a, b)
\* succeeds and the value it returns is exactly that sum.
C1_AddExact ==
    \A i \in DOMAIN calls :
        LET c == calls[i]
            sum == DecAdd(Value(c.a), Value(c.b))
        IN  (c.op = "add" /\ DecLeq(sum, U64MaxDecimal)) =>
                /\ c.ret.tag = "Ok"
                /\ IsU64(c.ret.value)
                /\ Value(c.ret.value) = sum

\* add(U64_MAX - 1, 1) has succeeded: the sum is the largest that fits.
C1_Witness ==
    /\ Called
    /\ Last.op = "add" /\ Last.a = MaxMinus(1) /\ Last.b = U64Of(1)
    /\ Last.ret.tag = "Ok"

\* C2: whenever the mathematical sum a + b exceeds 2^64 - 1, add(a, b) fails
\* with Overflow and carries no value: not the wrapped sum, nor any other.
C2_AddOverflow ==
    \A i \in DOMAIN calls :
        LET c == calls[i]
            sum == DecAdd(Value(c.a), Value(c.b))
        IN  (c.op = "add" /\ DecLess(U64MaxDecimal, sum)) =>
                /\ c.ret.tag = "Err"
                /\ c.ret.code = "Overflow"
                /\ DOMAIN c.ret = {"tag", "code"}

\* add of two operands with the top bit set has failed (the wrapped sum is 1).
C2_Witness ==
    /\ Called
    /\ Last.op = "add" /\ Last.a = <<0, 0, 0, 32768>> /\ Last.b = <<1, 0, 0, 32768>>
    /\ Last.ret.tag = "Err"

\* C3: whenever a >= b, subtract(a, b) succeeds and the value d it returns is
\* exactly the difference: d + b = a over the naturals.
C3_SubExact ==
    \A i \in DOMAIN calls :
        LET c == calls[i]
        IN  (c.op = "subtract" /\ DecLeq(Value(c.b), Value(c.a))) =>
                /\ c.ret.tag = "Ok"
                /\ IsU64(c.ret.value)
                /\ DecAdd(Value(c.ret.value), Value(c.b)) = Value(c.a)

\* subtract(2^16, 1) has succeeded: the borrow crosses a limb.
C3_Witness ==
    /\ Called
    /\ Last.op = "subtract" /\ Last.a = <<0, 1, 0, 0>> /\ Last.b = U64Of(1)
    /\ Last.ret.tag = "Ok"

\* C4: whenever a < b, subtract(a, b) fails with Overflow and carries no
\* value: not the wrapped difference, nor 0.
C4_SubUnderflow ==
    \A i \in DOMAIN calls :
        LET c == calls[i]
        IN  (c.op = "subtract" /\ DecLess(Value(c.a), Value(c.b))) =>
                /\ c.ret.tag = "Err"
                /\ c.ret.code = "Overflow"
                /\ DOMAIN c.ret = {"tag", "code"}

\* subtract(U64_MAX - 1, U64_MAX) has failed.
C4_Witness ==
    /\ Called
    /\ Last.op = "subtract" /\ Last.a = MaxMinus(1) /\ Last.b = U64_MAX
    /\ Last.ret.tag = "Err"

\* C7: every call ends either in success with one u64 value or in rejection
\* with the Overflow kind and no value; Overflow is the only error kind, used
\* by add and by subtract alike.
C7_BinaryOutcome ==
    /\ ErrorCode = {"Overflow"}
    /\ \A i \in DOMAIN calls :
         LET r == calls[i].ret
         IN  \/ /\ DOMAIN r = {"tag", "value"}
                /\ r.tag = "Ok"
                /\ IsU64(r.value)
             \/ r = [tag |-> "Err", code |-> "Overflow"]

\* A subtraction has been rejected for underflow.
C7_Witness ==
    /\ Called
    /\ Last.op = "subtract" /\ Last.a = Zero /\ Last.b = U64Of(1)
    /\ Last.ret = [tag |-> "Err", code |-> "Overflow"]

\* C8: add(u64::MAX, 0) = u64::MAX; add(u64::MAX, 1) fails; subtract(0, 0) = 0;
\* subtract(5, 5) = 0; subtract(0, 1) fails.
C8_Boundaries ==
    /\ Value(U64_MAX) = U64MaxDecimal
    /\ \A i \in DOMAIN calls :
         LET c == calls[i]
         IN  /\ (c.op = "add" /\ c.a = U64_MAX /\ c.b = Zero) => c.ret = Ok(U64_MAX)
             /\ (c.op = "add" /\ c.a = U64_MAX /\ c.b = U64Of(1)) => c.ret.tag = "Err"
             /\ (c.op = "subtract" /\ c.a = Zero /\ c.b = Zero) => c.ret = Ok(Zero)
             /\ (c.op = "subtract" /\ c.a = U64Of(5) /\ c.b = U64Of(5)) => c.ret = Ok(Zero)
             /\ (c.op = "subtract" /\ c.a = Zero /\ c.b = U64Of(1)) => c.ret.tag = "Err"

\* add(u64::MAX, 0) has returned u64::MAX.
C8_Witness ==
    /\ Called
    /\ Last.op = "add" /\ Last.a = U64_MAX /\ Last.b = Zero
    /\ Last.ret = Ok(U64_MAX)

\* C10: after add(a, b) = s, subtract(s, b) returns a and subtract(s, a)
\* returns b; after subtract(a, b) = d, add(d, b) returns a.
C10_RoundTrip ==
    \A i \in DOMAIN calls :
        LET c == calls[i]
        IN  /\ (c.op = "add" /\ c.ret.tag = "Ok") =>
                /\ subtract(c.ctx, c.ret.value, c.b).ret = Ok(c.a)
                /\ subtract(c.ctx, c.ret.value, c.a).ret = Ok(c.b)
            /\ (c.op = "subtract" /\ c.ret.tag = "Ok") =>
                add(c.ctx, c.ret.value, c.b).ret = Ok(c.a)

\* add(2^32 - 1, 1) has succeeded with 2^32: undoing it borrows across limbs.
C10_Witness ==
    /\ Called
    /\ Last.op = "add" /\ Last.a = <<LimbBase - 1, LimbBase - 1, 0, 0>>
    /\ Last.b = U64Of(1)
    /\ Last.ret = Ok(<<0, 0, 1, 0>>)

\* The fields of a log line: the runs of characters between single spaces.
Spaces(line) == {i \in 1..Len(line) : line[i] = " "}

SpaceAt(line, k) ==
    IF k = 0 THEN 0
    ELSE IF k > Cardinality(Spaces(line)) THEN Len(line) + 1
    ELSE CHOOSE p \in Spaces(line) :
            Cardinality({q \in Spaces(line) : q < p}) = k - 1

Fields(line) ==
    [k \in 1..(Cardinality(Spaces(line)) + 1) |->
        SubSeq(line, SpaceAt(line, k - 1) + 1, SpaceAt(line, k) - 1)]

\* The line a successful call c must have written.
LineOf(c, line) ==
    IF c.op = "add"
    THEN Fields(line) = << <<"A", "d", "d", "i", "n", "g">>, Value(c.a), <<"+">>,
                           Value(c.b), <<"=">>, Value(c.ret.value) >>
    ELSE Fields(line) = << <<"S", "u", "b", "t", "r", "a", "c", "t", "i", "n", "g">>,
                           Value(c.a), <<"-">>, Value(c.b), <<"=">>,
                           Value(c.ret.value) >>

Adding_2_3 ==
    <<"A", "d", "d", "i", "n", "g", " ", "2", " ", "+", " ", "3", " ", "=", " ", "5">>

Subtracting_10_4 ==
    <<"S", "u", "b", "t", "r", "a", "c", "t", "i", "n", "g", " ", "1", "0", " ", "-",
      " ", "4", " ", "=", " ", "6">>

\* C5: a successful call appends exactly one line to the log, of the form
\* "Adding {a} + {b} = {result}" or "Subtracting {a} - {b} = {result}", with its
\* own operands and the value it returns in decimal; add(2, 3) logs
\* "Adding 2 + 3 = 5" and subtract(10, 4) logs "Subtracting 10 - 4 = 6".
C5_OneLinePerSuccess ==
    [][LET c == calls'[Len(calls')]
       IN  c.ret.tag = "Ok" =>
             /\ Len(log') = Len(log) + 1
             /\ SubSeq(log', 1, Len(log)) = log
             /\ LineOf(c, log'[Len(log')])
             /\ (c.op = "add" /\ c.a = U64Of(2) /\ c.b = U64Of(3)) =>
                    log'[Len(log')] = Adding_2_3
             /\ (c.op = "subtract" /\ c.a = U64Of(10) /\ c.b = U64Of(4)) =>
                    log'[Len(log')] = Subtracting_10_4
      ]_vars

\* subtract(10, 4) has succeeded after an earlier success, and its line is the
\* second of the log.
C5_Witness ==
    /\ Len(calls) >= 2
    /\ Last.op = "subtract" /\ Last.a = U64Of(10) /\ Last.b = U64Of(4)
    /\ Last.ret = Ok(U64Of(6))
    /\ Len(log) = 2
    /\ log[2] = Subtracting_10_4

\* C6: two calls with the same selector and operands have the same outcome,
\* whatever was called before them and whatever context they were given.
C6_Deterministic ==
    \A i, j \in DOMAIN calls :
        (calls[i].op = calls[j].op /\ calls[i].a = calls[j].a /\ calls[i].b = calls[j].b)
            => calls[i].ret = calls[j].ret

\* The same add was called first and last, with different contexts and
\* another call's log line in between.
C6_Witness ==
    /\ Len(calls) = 3
    /\ calls[1].op = "add" /\ calls[3].op = "add"
    /\ calls[1].a = calls[3].a /\ calls[1].b = calls[3].b
    /\ calls[1].ctx # calls[3].ctx
    /\ calls[2].op = "subtract" /\ calls[2].ret.tag = "Ok"
    /\ Len(log) = 3

\* The log lines of the successful calls among cs, in call order.
RECURSIVE LinesOfSuccesses(_)
LinesOfSuccesses(cs) ==
    IF cs = <<>> THEN <<>>
    ELSE LET c == cs[Len(cs)]
         IN  LinesOfSuccesses(Front(cs)) \o
                (IF c.ret.tag # "Ok" THEN <<>>
                 ELSE IF c.op = "add" THEN <<AddingLine(c.a, c.b, c.ret.value)>>
                 ELSE <<SubtractingLine(c.a, c.b, c.ret.value)>>)

\* C9: a call that fails leaves the log as it was; so the log holds one line
\* per successful call, in call order.
C9_FailureLogsNothing ==
    /\ [][calls'[Len(calls')].ret.tag = "Err" => log' = log]_vars
    /\ [](Len(log) = Cardinality({i \in DOMAIN calls : calls[i].ret.tag = "Ok"}))
    /\ [](log = LinesOfSuccesses(calls))

\* A failed call stands between two successful ones; the log has two lines.
C9_Witness ==
    /\ Len(calls) = 3
    /\ calls[1].ret.tag = "Ok" /\ calls[2].ret.tag = "Err" /\ calls[3].ret.tag = "Ok"
    /\ calls[1].op # calls[3].op
    /\ Len(log) = 2

====
